---- MODULE Spec2Model ----
(***************************************************************************)
(* seagull::registry::Key (src/include/seagull/registry.h): an owning      *)
(* wrapper of one registry handle (wil::unique_hkey m_hKey), its create /  *)
(* open / move / destroy lifecycle, the two-phase enumerators              *)
(* enum_subkeys, enum_values and enum_value_names, the typed value         *)
(* setters, delete_value / delete_key / delete_tree and the multi-string   *)
(* encoder build_multistring, run against a model of the registry calls    *)
(* the wrapper makes.                                                      *)
(*                                                                         *)
(* Spec      the Key lifecycle                                             *)
(* SpecEnum  one enumerator racing with another actor on the node          *)
(* SpecOps   setters, delete operations and enumerators of one program     *)
(* SpecTree  create / open / delete_key / delete_tree on a small tree      *)
(* SpecCodec build_multistring and the reader of its output                *)
(***************************************************************************)
EXTENDS Integers, Sequences, FiniteSets, TLC

\* ------------------------------------------------------------------ bounds

\* Key objects (slots that may hold a constructed Key).
MaxKeys == 2
\* Handles create / open hand to Keys in one behaviour.
MaxHandles == 2
\* Depth of the store tree below the root.
MaxDepth == 2
\* Changes another actor makes to the node while one enumerator call runs.
MaxMut == 2

Keys == 1..MaxKeys

\* ------------------------------------------------------- handles and codes

\* The empty wil::unique_hkey (nullptr): a default-constructed Key holds it.
NullH == 0
\* The predefined root (HKEY_CURRENT_USER and the like) the caller passes as
\* hKeyParent: the store never issues it, and it stays open whatever is closed.
RootH == -1

AllH == {RootH} \cup (0..MaxHandles)

\* Win32 status codes the registry calls return.
ERROR_SUCCESS == 0
ERROR_FILE_NOT_FOUND == 2
ERROR_ACCESS_DENIED == 5
ERROR_INVALID_HANDLE == 6
ERROR_MORE_DATA == 234
ERROR_NO_MORE_ITEMS == 259
ERROR_KEY_DELETED == 1018

\* What THROW_IF_WIN32_ERROR throws for a status: the HRESULT of the Win32
\* code (facility 7, severity bit set), as a signed 32-bit integer.
HRESULT_FROM_WIN32(s) ==
    IF s <= 0 THEN s ELSE ((s % 65536) + 7 * 65536 - 2147483647) - 1

\* The Win32 code an HRESULT carries (its low 16 bits).
HRESULT_CODE(hr) == hr % 65536

\* ------------------------------------------------------------- store names

\* Characters are positive integers; 0 is NUL.
NUL == 0
NameA == <<1>>
NameB == <<2, 2>>
NameC == <<1, 1, 1>>
Names == {NameA, NameB, NameC}

RECURSIVE PathsOfDepth(_)
PathsOfDepth(d) ==
    IF d = 0 THEN {<<>>}
    ELSE {Append(p, n) : p \in PathsOfDepth(d - 1), n \in Names}

AllPaths == UNION {PathsOfDepth(d) : d \in 0..MaxDepth}

\* The subKey arguments the callers pass to create / open (relative paths);
\* <<>> is the empty string L"". B and A\B are absent at first.
SubPaths == {<<>>, <<NameB>>, <<NameA, NameB>>}

\* The same for the callers that work on the tree of A and A\B.
TreePaths == {<<>>, <<NameA>>, <<NameA, NameB>>}

\* The subKey arguments the callers pass to delete_key / delete_tree.
DeletePaths == {<<NameA>>, <<NameB>>, <<NameA, NameB>>}

\* Registry value type tags.
REG_SZ == 1
REG_BINARY == 3
REG_DWORD == 4

VARIABLES
    alive,      \* alive[k]: Key object k is constructed and not yet destroyed
    m_hKey,     \* m_hKey[k]: the handle Key k holds (NullH when empty)
    hnode,      \* hnode[h]: the node handle h was issued for (h in 1..Len(hnode))
    closes,     \* closes[h]: RegCloseKey calls made on handle value h
    nodes,      \* the paths of the nodes present in the store
    vals,       \* vals[p]: the values of node p, in the store's enumeration order
    last,       \* the last Key operation: what it was and what it returned
    epc,        \* the enumerator's position: "idle", "sweep" (in the loop), "done"
    ekind,      \* which enumerator runs: "subkeys", "values", "value_names"
    ekey,       \* the Key it was called on
    ecount,     \* subKeyCount / valCount from the size query
    ecapName,   \* capacity of the name buffer (characters)
    ecapVal,    \* capacity of valBuf (bytes)
    ei,         \* the loop index i
    eret,       \* the local vector `ret`
    nameBuf,    \* the reused name buffer (buf / nameBuf)
    valBuf,     \* the reused data buffer of enum_values
    nameLen,    \* subKeyNameLength / valNameLength after the last call
    valLen,     \* valLength after the last call
    estatus,    \* the status of the enumerator's last registry call
    eres,       \* what the enumerator returned: a collection, or an error
    emut,       \* the other actor's changes since the size query: kind and loop index
    wrote,      \* the last change a setter or delete_value made: name, kind and value
    strings,    \* build_multistring: the list passed in
    mret,       \* build_multistring: the vector `ret` returned
    decoded,    \* the list a reader splits that vector into
    cpc         \* the codec's position: "start", "encoded", "decoded"

lifeVars == <<alive, m_hKey, hnode, closes, nodes, vals, last>>

enumVars == <<epc, ekind, ekey, ecount, ecapName, ecapVal, ei, eret, nameBuf,
              valBuf, nameLen, valLen, estatus, eres, emut>>

sideVars == <<wrote, strings, mret, decoded, cpc>>

vars == <<alive, m_hKey, hnode, closes, nodes, vals, last, epc, ekind, ekey,
          ecount, ecapName, ecapVal, ei, eret, nameBuf, valBuf, nameLen, valLen,
          estatus, eres, emut, wrote, strings, mret, decoded, cpc>>

\* --------------------------------------------------- wil::unique_hkey

\* unique_hkey::is_valid: the stored pointer is not the invalid value (nullptr).
IsValidHMinusOne(h) == h # RootH
IsValidH(h) == h # NullH

\* unique_hkey::reset / destructor: RegCloseKey on the held handle, only if valid.
CloseHeldAlways(cl, h) == [cl EXCEPT ![h] = @ + 1]
CloseHeld(cl, h) == IF IsValidH(h) THEN [cl EXCEPT ![h] = @ + 1] ELSE cl

\* Key::get
Key_get(k) == m_hKey[k]

\* Key::is_valid and Key::operator bool
Key_is_valid(k) == IsValidH(m_hKey[k])
Key_bool(k) == Key_is_valid(k)

\* ------------------------------------------------------------ the store

Issued == 1..Len(hnode)

\* A handle the store accepts: the predefined root, or an issued handle not closed.
HandleLive(h) == h = RootH \/ (h \in Issued /\ closes[h] = 0)

\* What hnode holds for a handle whose node has been deleted: the handle stays
\* open, and every call on it fails with ERROR_KEY_DELETED.
Gone == <<<<NUL>>>>

NodeIn(hn, h) == IF h = RootH THEN <<>> ELSE hn[h]

NodeOf(h) == NodeIn(hnode, h)

\* The predefined keys: a call that names one with an empty subKey gets the
\* very same handle back.
IsPredefined(h) == h = RootH

Prefixes(p) == {SubSeq(p, 1, n) : n \in 0..Len(p)}

IsPrefix(p, q) == Len(p) <= Len(q) /\ SubSeq(q, 1, Len(p)) = p

Children(ns, p) == {q \in ns : Len(q) = Len(p) + 1 /\ IsPrefix(p, q)}

\* What a failed open / create returns: nothing is created, no handle is given.
Refused(status) == [status |-> status, nodes |-> nodes, node |-> <<>>, same |-> FALSE]

\* Mutant of RegOpenKeyExW: open creates the node when it is absent.
RegOpenKeyCreates(hParent, sub, deny) ==
    IF ~HandleLive(hParent) THEN Refused(ERROR_INVALID_HANDLE)
    ELSE IF NodeOf(hParent) \notin nodes THEN Refused(ERROR_KEY_DELETED)
    ELSE IF deny THEN Refused(ERROR_ACCESS_DENIED)
    ELSE [status |-> ERROR_SUCCESS,
          nodes |-> nodes \cup Prefixes(NodeOf(hParent) \o sub),
          node |-> NodeOf(hParent) \o sub,
          same |-> IsPredefined(hParent) /\ sub = <<>>]

\* RegOpenKeyExW: opens the node only if it is present. `same`: *phkResult
\* receives hKey itself, which happens when hKey is a predefined key and
\* lpSubKey is empty; otherwise it receives a new handle.
RegOpenKeyExW(hParent, sub, deny) ==
    IF ~HandleLive(hParent) THEN Refused(ERROR_INVALID_HANDLE)
    ELSE IF NodeOf(hParent) \notin nodes THEN Refused(ERROR_KEY_DELETED)
    ELSE IF NodeOf(hParent) \o sub \notin nodes THEN Refused(ERROR_FILE_NOT_FOUND)
    ELSE IF deny THEN Refused(ERROR_ACCESS_DENIED)
    ELSE [status |-> ERROR_SUCCESS, nodes |-> nodes, node |-> NodeOf(hParent) \o sub,
          same |-> IsPredefined(hParent) /\ sub = <<>>]

\* RegCreateKeyExW: creates the node (and the missing nodes on the way to it)
\* if it is absent, opens it if it is present; *phkResult always receives a
\* new handle (with an empty lpSubKey, a new handle to the key of hKey).
RegCreateKeyExW(hParent, sub, deny) ==
    IF ~HandleLive(hParent) THEN Refused(ERROR_INVALID_HANDLE)
    ELSE IF NodeOf(hParent) \notin nodes THEN Refused(ERROR_KEY_DELETED)
    ELSE IF deny THEN Refused(ERROR_ACCESS_DENIED)
    ELSE [status |-> ERROR_SUCCESS,
          nodes |-> nodes \cup Prefixes(NodeOf(hParent) \o sub),
          node |-> NodeOf(hParent) \o sub,
          same |-> FALSE]

\* The hKeyParent arguments a caller has at hand: the predefined root, or
\* get() of any constructed Key (NullH when that Key is empty).
ParentChoices == {RootH} \cup {m_hKey[j] : j \in {i \in Keys : alive[i]}}

\* The Keys that hold handle h.
Holders(h) == {k \in Keys : alive[k] /\ m_hKey[k] = h}

\* The times a Key was handed the predefined root: each is held or was closed.
RootHandouts == closes[RootH] + Cardinality(Holders(RootH))

\* An input the bounded model can follow: the target stays within MaxDepth and
\* fewer than MaxHandles handles have been handed out.
InBounds(hParent, sub) ==
    /\ Len(hnode) + RootHandouts < MaxHandles
    /\ (HandleLive(hParent) => Len(NodeOf(hParent) \o sub) <= MaxDepth)

\* ------------------------------------------------------------ Key::create

\* Lines 173-184 and 191-198: the status is tested first (THROW_IF_WIN32_ERROR
\* leaves the function before m_hKey is touched); on success `&m_hKey` resets
\* the unique_hkey (closing what it held) and the new handle is stored.
\* Gives what the Key holds afterwards and the handle value reset() was run on.
StoreResultResetFirst(held, status, hNew) ==
    IF status = ERROR_SUCCESS
    THEN [holds |-> hNew, reset |-> held]
    ELSE [holds |-> NullH, reset |-> held]
StoreResultNoReset(held, status, hNew) ==
    IF status = ERROR_SUCCESS
    THEN [holds |-> hNew, reset |-> NullH]
    ELSE [holds |-> held, reset |-> NullH]
StoreResult(held, status, hNew) ==
    IF status = ERROR_SUCCESS
    THEN [holds |-> hNew, reset |-> held]
    ELSE [holds |-> held, reset |-> NullH]

LastOp(op, k, src, parent, sub, status) ==
    [op |-> op, key |-> k, src |-> src, parent |-> parent, sub |-> sub,
     status |-> status, thrown |-> HRESULT_FROM_WIN32(status)]

\* The effect on Key k of a registry call that returned r.
Acquire(op, k, hParent, sub, r) ==
    LET hNew == IF r.same THEN hParent ELSE Len(hnode) + 1
        s == StoreResult(m_hKey[k], r.status, hNew)
    IN /\ m_hKey' = [m_hKey EXCEPT ![k] = s.holds]
       /\ closes' = CloseHeld(closes, s.reset)
       /\ hnode' = IF r.status = ERROR_SUCCESS /\ ~r.same
                   THEN Append(hnode, r.node) ELSE hnode
       /\ nodes' = r.nodes
       /\ last' = LastOp(op, k, 0, hParent, sub, r.status)
       /\ UNCHANGED vals
       /\ UNCHANGED <<enumVars, sideVars>>

Key_create(k, hParent, sub, deny) ==
    /\ alive[k]
    /\ InBounds(hParent, sub)
    /\ Acquire("create", k, hParent, sub, RegCreateKeyExW(hParent, sub, deny))
    /\ UNCHANGED alive

Key_open(k, hParent, sub, deny) ==
    /\ alive[k]
    /\ InBounds(hParent, sub)
    /\ Acquire("open", k, hParent, sub, RegOpenKeyExW(hParent, sub, deny))
    /\ UNCHANGED alive

\* Key::Key() noexcept = default
Key_ctor(k) ==
    /\ ~alive[k]
    /\ alive' = [alive EXCEPT ![k] = TRUE]
    /\ m_hKey' = [m_hKey EXCEPT ![k] = NullH]
    /\ last' = LastOp("ctor", k, 0, NullH, <<>>, ERROR_SUCCESS)
    /\ UNCHANGED <<hnode, closes, nodes, vals>>
    /\ UNCHANGED <<enumVars, sideVars>>

\* Key::Key(hKeyParent, subKey[, desiredAccess]): create() on the new object;
\* when create throws the object is never constructed (its empty m_hKey is
\* destroyed without a close).
Key_ctor_create(k, hParent, sub, deny) ==
    /\ ~alive[k]
    /\ InBounds(hParent, sub)
    /\ Acquire("ctor_create", k, hParent, sub, RegCreateKeyExW(hParent, sub, deny))
    /\ alive' = [alive EXCEPT ![k] = (last'.status = ERROR_SUCCESS)]

\* The implicit move constructor: Key k is built from src, which is left empty.
Key_move_ctor(k, src) ==
    /\ ~alive[k] /\ alive[src]
    /\ alive' = [alive EXCEPT ![k] = TRUE]
    /\ m_hKey' = [m_hKey EXCEPT ![k] = m_hKey[src], ![src] = NullH]
    /\ last' = LastOp("move_ctor", k, src, NullH, <<>>, ERROR_SUCCESS)
    /\ UNCHANGED <<hnode, closes, nodes, vals>>
    /\ UNCHANGED <<enumVars, sideVars>>

\* Mutant of the move assignment: the source keeps its handle (a copy).
Key_move_assign_copy(k, src) ==
    /\ alive[k] /\ alive[src]
    /\ IF k = src
       THEN UNCHANGED <<m_hKey, closes>>
       ELSE /\ closes' = CloseHeld(closes, m_hKey[k])
            /\ m_hKey' = [m_hKey EXCEPT ![k] = m_hKey[src]]
    /\ last' = LastOp("move_assign", k, src, NullH, <<>>, ERROR_SUCCESS)
    /\ UNCHANGED <<alive, hnode, nodes, vals>>
    /\ UNCHANGED <<enumVars, sideVars>>

\* The implicit move assignment k = std::move(src): unique_hkey resets the
\* destination and takes the source's handle; self-assignment changes nothing.
Key_move_assign(k, src) ==
    /\ alive[k] /\ alive[src]
    /\ IF k = src
       THEN UNCHANGED <<m_hKey, closes>>
       ELSE /\ closes' = CloseHeld(closes, m_hKey[k])
            /\ m_hKey' = [m_hKey EXCEPT ![k] = m_hKey[src], ![src] = NullH]
    /\ last' = LastOp("move_assign", k, src, NullH, <<>>, ERROR_SUCCESS)
    /\ UNCHANGED <<alive, hnode, nodes, vals>>
    /\ UNCHANGED <<enumVars, sideVars>>

\* The implicit destructor: ~unique_hkey closes the held handle if it is valid.
Key_dtor(k) ==
    /\ alive[k]
    /\ alive' = [alive EXCEPT ![k] = FALSE]
    /\ closes' = CloseHeld(closes, m_hKey[k])
    /\ m_hKey' = [m_hKey EXCEPT ![k] = NullH]
    /\ last' = LastOp("dtor", k, 0, m_hKey[k], <<>>, ERROR_SUCCESS)
    /\ UNCHANGED <<hnode, nodes, vals>>
    /\ UNCHANGED <<enumVars, sideVars>>

\* A value of the store: its name, type tag and bytes.
ValueRec(n, t, d) == [name |-> n, type |-> t, data |-> d]

NoValues == [p \in AllPaths |-> <<>>]

InitLife ==
    /\ alive = [k \in Keys |-> FALSE]
    /\ m_hKey = [k \in Keys |-> NullH]
    /\ hnode = <<>>
    /\ closes = [h \in AllH |-> 0]
    /\ nodes = {<<>>, <<NameA>>}
    /\ vals = [NoValues EXCEPT ![<<NameA>>] = <<ValueRec(NameC, REG_DWORD, <<42, 0, 0, 0>>)>>]
    /\ last = LastOp("init", 0, 0, NullH, <<>>, ERROR_SUCCESS)

\* No enumerator is running.
EnumIdle ==
    /\ epc = "idle" /\ ekind = "none" /\ ekey = 0
    /\ ecount = 0 /\ ecapName = 0 /\ ecapVal = 0 /\ ei = 0
    /\ eret = <<>> /\ nameBuf = <<>> /\ valBuf = <<>>
    /\ nameLen = 0 /\ valLen = 0 /\ estatus = ERROR_SUCCESS
    /\ eres = [ok |-> TRUE, status |-> ERROR_SUCCESS, list |-> <<>>]
    /\ emut = <<>>

\* No setter has written, and the codec has not been called.
NothingWritten == [name |-> <<>>, kind |-> "none", value |-> <<>>, node |-> <<>>]

SideIdle ==
    /\ wrote = NothingWritten
    /\ strings = <<>> /\ mret = <<>> /\ decoded = <<>> /\ cpc = "idle"

Init == InitLife /\ EnumIdle /\ SideIdle

NextLife ==
    \/ \E k \in Keys : Key_ctor(k)
    \/ \E k \in Keys, p \in ParentChoices, s \in SubPaths, d \in BOOLEAN :
          Key_ctor_create(k, p, s, d)
    \/ \E k \in Keys, p \in ParentChoices, s \in SubPaths, d \in BOOLEAN :
          Key_create(k, p, s, d)
    \/ \E k \in Keys, p \in ParentChoices, s \in SubPaths, d \in BOOLEAN :
          Key_open(k, p, s, d)
    \/ \E k \in Keys, s \in Keys : Key_move_ctor(k, s)
    \/ \E k \in Keys, s \in Keys : Key_move_assign(k, s)
    \/ \E k \in Keys : Key_dtor(k)

Spec == Init /\ [][NextLife]_vars

\* ------------------------------------------------------ the store: queries

\* The node the enumerating Key is open on, and what the other actor writes.
EnumNode == <<NameA>>
ValueNames == {NameA, NameC}
Payloads == {[type |-> REG_BINARY, data |-> <<>>],
             [type |-> REG_BINARY, data |-> <<9>>],
             [type |-> REG_DWORD, data |-> <<42, 0, 0, 0>>]}

Max(S) == IF S = {} THEN 0 ELSE CHOOSE x \in S : \A y \in S : y <= x

RECURSIVE LexLess(_, _)
LexLess(a, b) ==
    IF a = <<>> THEN b # <<>>
    ELSE IF b = <<>> THEN FALSE
    ELSE IF Head(a) # Head(b) THEN Head(a) < Head(b)
    ELSE LexLess(Tail(a), Tail(b))

RECURSIVE SortNames(_)
SortNames(S) ==
    IF S = {} THEN <<>>
    ELSE LET m == CHOOSE x \in S : \A y \in S \ {x} : LexLess(x, y)
         IN <<m>> \o SortNames(S \ {m})

\* The subkeys of node p in the store's enumeration order (by name).
SubKeyNames(p) == SortNames({q[Len(q)] : q \in Children(nodes, p)})

\* A buffer with `data` written at its start, the rest as it was.
WriteAt(buf, data) == data \o SubSeq(buf, Len(data) + 1, Len(buf))

Zeros(n) == [j \in 1..n |-> NUL]

\* RegQueryInfoKeyW: the counts and the longest name / data of the node now.
\* Name lengths are in characters without the terminating NUL.
RegQueryInfoKeyW(h) ==
    IF ~HandleLive(h)
    THEN [status |-> ERROR_INVALID_HANDLE, subKeys |-> 0, maxSubKeyLen |-> 0,
          values |-> 0, maxValueNameLen |-> 0, maxValueLen |-> 0]
    ELSE IF NodeOf(h) \notin nodes
    THEN [status |-> ERROR_KEY_DELETED, subKeys |-> 0, maxSubKeyLen |-> 0,
          values |-> 0, maxValueNameLen |-> 0, maxValueLen |-> 0]
    ELSE LET sk == SubKeyNames(NodeOf(h))
             vs == vals[NodeOf(h)]
         IN [status |-> ERROR_SUCCESS,
             subKeys |-> Len(sk),
             maxSubKeyLen |-> Max({Len(sk[j]) : j \in 1..Len(sk)}),
             values |-> Len(vs),
             maxValueNameLen |-> Max({Len(vs[j].name) : j \in 1..Len(vs)}),
             maxValueLen |-> Max({Len(vs[j].data) : j \in 1..Len(vs)})]

\* RegEnumKeyExW(h, i, buf, &cch): the name of subkey i with its NUL goes to
\* buf and cch becomes its length; cch comes in as the buffer size, NUL included.
RegEnumKeyExW(h, i, buf, cch) ==
    LET sk == SubKeyNames(NodeOf(h))
        failed(code) == [status |-> code, buf |-> buf, cch |-> cch]
    IN IF ~HandleLive(h) THEN failed(ERROR_INVALID_HANDLE)
       ELSE IF NodeOf(h) \notin nodes THEN failed(ERROR_KEY_DELETED)
       ELSE IF i >= Len(sk) THEN failed(ERROR_NO_MORE_ITEMS)
       ELSE IF Len(sk[i + 1]) + 1 > cch THEN failed(ERROR_MORE_DATA)
       ELSE [status |-> ERROR_SUCCESS,
             buf |-> WriteAt(buf, Append(sk[i + 1], NUL)),
             cch |-> Len(sk[i + 1])]

\* RegEnumValueW(h, i, nbuf, &cch, type, dbuf, &cb): name, type and bytes of
\* value i; wantData is FALSE when type / data / cb are passed as NULL.
RegEnumValueW(h, i, nbuf, cch, wantData, dbuf, cb) ==
    LET vs == vals[NodeOf(h)]
        failed(code) == [status |-> code, nbuf |-> nbuf, cch |-> cch,
                         type |-> 0, dbuf |-> dbuf, cb |-> cb]
    IN IF ~HandleLive(h) THEN failed(ERROR_INVALID_HANDLE)
       ELSE IF NodeOf(h) \notin nodes THEN failed(ERROR_KEY_DELETED)
       ELSE IF i >= Len(vs) THEN failed(ERROR_NO_MORE_ITEMS)
       ELSE IF Len(vs[i + 1].name) + 1 > cch THEN failed(ERROR_MORE_DATA)
       ELSE IF wantData /\ Len(vs[i + 1].data) > cb THEN failed(ERROR_MORE_DATA)
       ELSE [status |-> ERROR_SUCCESS,
             nbuf |-> WriteAt(nbuf, Append(vs[i + 1].name, NUL)),
             cch |-> Len(vs[i + 1].name),
             type |-> IF wantData THEN vs[i + 1].type ELSE 0,
             dbuf |-> IF wantData THEN WriteAt(dbuf, vs[i + 1].data) ELSE dbuf,
             cb |-> IF wantData THEN Len(vs[i + 1].data) ELSE cb]

\* ---------------------------------------------------------- the enumerators

\* THROW_IF_WIN32_ERROR: any status but ERROR_SUCCESS throws.
CallFailedUnlessEnd(status) == status \notin {ERROR_SUCCESS, ERROR_NO_MORE_ITEMS}
CallFailedUnlessMoreData(status) == status \notin {ERROR_SUCCESS, ERROR_MORE_DATA}
CallFailedUnlessInvalidHandle(status) == status \notin {ERROR_SUCCESS, ERROR_INVALID_HANDLE}
CallFailed(status) == status # ERROR_SUCCESS

\* maxSubKeyNameLength++ / maxValNameLength++: room for the terminating NUL.
NameCapacity(maxLen) == maxLen + 1

\* The in/out length is declared in the loop body and set to the full
\* capacity before every call (lines 320, 363-364, 416).
LengthInStale(capacity, previousOut) == previousOut
LengthIn(capacity, previousOut) == capacity

\* std::wstring(buf.get(), length)
WString(buf, length) == SubSeq(buf, 1, length)

\* Lines 377-385: valLength bytes are copied to a buffer of exactly valLength
\* bytes, which the pushed Value owns.
PushValueShared(ret, name, type, buf, length) ==
    Append([j \in 1..Len(ret) |-> [ret[j] EXCEPT !.value.data = buf]],
           [name |-> name,
            value |-> [type |-> type, data |-> buf, length |-> length]])
PushValue(ret, name, type, buf, length) ==
    Append(ret, [name |-> name,
                 value |-> [type |-> type,
                            data |-> SubSeq(buf, 1, length),
                            length |-> length]])

\* A throw leaves the enumerator: the local vector is destroyed with the stack
\* and the caller gets the error only.
OnEnumFailurePartial(ret, status) == [ok |-> TRUE, status |-> ERROR_SUCCESS, list |-> ret]
OnEnumFailure(ret, status) == [ok |-> FALSE, status |-> status, list |-> <<>>]

EnumKinds == {"subkeys", "values", "value_names"}

\* The size query and the allocation of the buffers (lines 297-316, 338-359,
\* 393-412).
EnumBegin(k, kind) ==
    /\ epc = "idle" /\ alive[k]
    /\ LET q == RegQueryInfoKeyW(m_hKey[k])
           cap == NameCapacity(IF kind = "subkeys" THEN q.maxSubKeyLen
                                                   ELSE q.maxValueNameLen)
           capv == IF kind = "values" THEN q.maxValueLen ELSE 0
       IN /\ ekind' = kind /\ ekey' = k /\ estatus' = q.status
          /\ ei' = 0 /\ eret' = <<>> /\ emut' = <<>>
          /\ IF CallFailed(q.status)
             THEN /\ epc' = "done"
                  /\ eres' = OnEnumFailure(<<>>, q.status)
                  /\ UNCHANGED <<ecount, ecapName, ecapVal, nameBuf, valBuf, nameLen, valLen>>
             ELSE /\ epc' = "sweep"
                  /\ ecount' = IF kind = "subkeys" THEN q.subKeys ELSE q.values
                  /\ ecapName' = cap /\ ecapVal' = capv
                  /\ nameBuf' = Zeros(cap) /\ valBuf' = Zeros(capv)
                  /\ nameLen' = cap /\ valLen' = capv
                  /\ UNCHANGED eres

Enum_begin(k, kind) == EnumBegin(k, kind) /\ UNCHANGED <<lifeVars, sideVars>>

\* The registry call of one loop iteration.
EnumCall ==
    IF ekind = "subkeys"
    THEN LET r == RegEnumKeyExW(m_hKey[ekey], ei, nameBuf, LengthIn(ecapName, nameLen))
         IN [status |-> r.status, nbuf |-> r.buf, cch |-> r.cch,
             type |-> 0, dbuf |-> valBuf, cb |-> valLen]
    ELSE RegEnumValueW(m_hKey[ekey], ei, nameBuf, LengthIn(ecapName, nameLen),
                       ekind = "values", valBuf, LengthIn(ecapVal, valLen))

\* One loop iteration (lines 318-331, 361-386, 414-429).
Enum_step ==
    /\ epc = "sweep" /\ ei < ecount
    /\ LET r == EnumCall
       IN /\ estatus' = r.status
          /\ IF CallFailed(r.status)
             THEN /\ epc' = "done"
                  /\ eres' = OnEnumFailure(eret, r.status)
                  /\ eret' = <<>> /\ nameBuf' = <<>> /\ valBuf' = <<>>
                  /\ UNCHANGED <<ei, nameLen, valLen>>
             ELSE /\ eret' = IF ekind = "values"
                             THEN PushValue(eret, WString(r.nbuf, r.cch), r.type, r.dbuf, r.cb)
                             ELSE Append(eret, WString(r.nbuf, r.cch))
                  /\ nameBuf' = r.nbuf /\ valBuf' = r.dbuf
                  /\ nameLen' = r.cch /\ valLen' = r.cb
                  /\ ei' = ei + 1
                  /\ UNCHANGED <<epc, eres>>
    /\ UNCHANGED <<ekind, ekey, ecount, ecapName, ecapVal, emut>>
    /\ UNCHANGED <<lifeVars, sideVars>>

\* The loop ends and `ret` is returned (lines 333, 388, 431).
Enum_return ==
    /\ epc = "sweep" /\ ei = ecount
    /\ epc' = "done"
    /\ eres' = [ok |-> TRUE, status |-> ERROR_SUCCESS, list |-> eret]
    /\ eret' = <<>> /\ nameBuf' = <<>> /\ valBuf' = <<>>
    /\ UNCHANGED <<ekind, ekey, ecount, ecapName, ecapVal, ei, nameLen, valLen, estatus, emut>>
    /\ UNCHANGED <<lifeVars, sideVars>>

\* The caller is done with the result.
Enum_finish ==
    /\ epc = "done"
    /\ epc' = "idle" /\ ekind' = "none" /\ ekey' = 0
    /\ ecount' = 0 /\ ecapName' = 0 /\ ecapVal' = 0 /\ ei' = 0
    /\ eret' = <<>> /\ nameBuf' = <<>> /\ valBuf' = <<>>
    /\ nameLen' = 0 /\ valLen' = 0 /\ estatus' = ERROR_SUCCESS
    /\ eres' = [ok |-> TRUE, status |-> ERROR_SUCCESS, list |-> <<>>]
    /\ emut' = <<>>
    /\ UNCHANGED <<lifeVars, sideVars>>

\* --------------------------------------------------------- the other actor

\* Another process changes the node between the enumerator's registry calls
\* (or while no enumerator runs); a change during an enumeration is recorded
\* with the loop index it happened at (0: before the first per-index call).
OtherMay(kinds) ==
    \/ epc = "idle"
    \/ epc = "sweep" /\ ekind \in kinds /\ Len(emut) < MaxMut

Noted(kind) ==
    emut' = IF epc = "sweep" THEN Append(emut, [kind |-> kind, at |-> ei]) ELSE emut

StoreOnly == <<alive, m_hKey, hnode, closes, last, epc, ekind, ekey, ecount, ecapName,
               ecapVal, ei, eret, nameBuf, valBuf, nameLen, valLen, estatus, eres,
               wrote, strings, mret, decoded, cpc>>

Other_add_subkey(n) ==
    /\ OtherMay({"subkeys"})
    /\ Append(EnumNode, n) \notin nodes
    /\ nodes' = nodes \cup {Append(EnumNode, n)}
    /\ Noted("add")
    /\ UNCHANGED vals /\ UNCHANGED StoreOnly

Other_remove_subkey(n) ==
    /\ OtherMay({"subkeys"})
    /\ Append(EnumNode, n) \in nodes
    /\ nodes' = nodes \ {Append(EnumNode, n)}
    /\ Noted("remove")
    /\ UNCHANGED vals /\ UNCHANGED StoreOnly

IndexOf(vs, n) == Max({j \in 1..Len(vs) : vs[j].name = n})

\* RegSetValueExW by the other actor: a present value is replaced in place, an
\* absent one is added at the end.
Other_set_value(n, pl) ==
    /\ OtherMay({"values", "value_names"})
    /\ LET vs == vals[EnumNode]
           j == IndexOf(vs, n)
           v == ValueRec(n, pl.type, pl.data)
       IN /\ (IF j = 0 THEN TRUE ELSE vs[j] # v)
          /\ vals' = [vals EXCEPT ![EnumNode] =
                         IF j = 0 THEN Append(vs, v) ELSE [vs EXCEPT ![j] = v]]
          /\ Noted(IF j = 0 THEN "add" ELSE "set")
    /\ UNCHANGED nodes /\ UNCHANGED StoreOnly

Other_delete_value(n) ==
    /\ OtherMay({"values", "value_names"})
    /\ LET vs == vals[EnumNode]
           j == IndexOf(vs, n)
       IN /\ j # 0
          /\ vals' = [vals EXCEPT ![EnumNode] =
                         SubSeq(vs, 1, j - 1) \o SubSeq(vs, j + 1, Len(vs))]
    /\ Noted("remove")
    /\ UNCHANGED nodes /\ UNCHANGED StoreOnly

\* Key 1 has been constructed on EnumNode (Key(root, "A")), the other Keys are
\* default-constructed: a state of Spec.
InitEnum ==
    /\ alive = [k \in Keys |-> TRUE]
    /\ m_hKey = [k \in Keys |-> IF k = 1 THEN 1 ELSE NullH]
    /\ hnode = <<EnumNode>>
    /\ closes = [h \in AllH |-> 0]
    /\ nodes = {<<>>, EnumNode}
    /\ vals = [NoValues EXCEPT ![EnumNode] = <<ValueRec(NameC, REG_DWORD, <<42, 0, 0, 0>>)>>]
    /\ last = LastOp("ctor", MaxKeys, 0, NullH, <<>>, ERROR_SUCCESS)
    /\ EnumIdle
    /\ SideIdle

NextEnum ==
    \/ \E k \in Keys, kind \in EnumKinds : Enum_begin(k, kind)
    \/ Enum_step
    \/ Enum_return
    \/ Enum_finish
    \/ \E n \in Names : Other_add_subkey(n)
    \/ \E n \in Names : Other_remove_subkey(n)
    \/ \E n \in ValueNames, pl \in Payloads : Other_set_value(n, pl)
    \/ \E n \in ValueNames : Other_delete_value(n)

SpecEnum == InitEnum /\ [][NextEnum]_vars

\* ----------------------------------------------------- values: wire forms

REG_EXPAND_SZ == 2
REG_MULTI_SZ == 7
REG_QWORD == 11

\* sizeof(wchar_t), sizeof(DWORD) and sizeof(ULONGLONG) on the platform of the
\* registry calls.
SizeofWchar == 2
SizeofDword == 4
SizeofQword == 8

\* The largest 16-bit unit. A DWORD is written as its two 16-bit halves and a
\* ULONGLONG as its four, least significant first (the numbers themselves are
\* beyond the checker's integers); a wchar_t is one unit.
UnitMax == 65535

\* The bytes of an array of 16-bit units as it lies in memory (little-endian).
RECURSIVE UnitsToBytes(_)
UnitsToBytes(units) ==
    IF units = <<>> THEN <<>>
    ELSE <<Head(units) % 256, Head(units) \div 256>> \o UnitsToBytes(Tail(units))

\* reinterpret_cast<LPCBYTE>(p) with a byte count: the first `size` bytes of
\* the object at p.
BytesAt(units, size) == SubSeq(UnitsToBytes(units), 1, size)

\* std::wstring::c_str(): the characters and the terminating NUL.
CStr(val) == Append(val, NUL)

\* internals::build_multistring (lines 89-113). For an empty list line 93
\* builds std::vector<wchar_t>(L'\0', 2): the (count, value) constructor with
\* count L'\0' = 0 and value 2, an empty vector.
RECURSIVE JoinStrings(_)
JoinStrings(list) ==
    IF list = <<>> THEN <<>>
    ELSE Head(list) \o <<NUL>> \o JoinStrings(Tail(list))

FillVector(count, value) == [j \in 1..count |-> value]

RECURSIVE ConcatStrings(_)
ConcatStrings(list) ==
    IF list = <<>> THEN <<>> ELSE Head(list) \o ConcatStrings(Tail(list))

build_multistring_nosep(list) ==
    IF list = <<>> THEN FillVector(NUL, 2)
    ELSE Append(Append(ConcatStrings(list), NUL), NUL)
build_multistring_nofinal(list) ==
    IF list = <<>> THEN FillVector(NUL, 2)
    ELSE JoinStrings(list)
build_multistring(list) ==
    IF list = <<>> THEN FillVector(NUL, 2)
    ELSE Append(JoinStrings(list), NUL)

\* The bytes each setter hands to RegSetValueExW (lines 213-214, 225-226,
\* 237-238, 251-252, 263-264, 275-276, 287-288).
DwordData(val) == BytesAt(val, SizeofDword)
QwordData(val) == BytesAt(val, SizeofQword)
StringData(val) == BytesAt(CStr(val), (Len(val) + 1) * SizeofWchar)
MultiStringData(val) ==
    BytesAt(build_multistring(val), Len(build_multistring(val)) * SizeofWchar)
BinaryData(val, size) == SubSeq(val, 1, size)

\* ------------------------------------------- the store: values and deletes

\* RegSetValueExW: a present value is replaced in place by the new type and
\* bytes, an absent one is added at the end; nothing else changes.
RegSetValueExW(h, n, type, data, deny) ==
    IF ~HandleLive(h) THEN [status |-> ERROR_INVALID_HANDLE, vals |-> vals]
    ELSE IF NodeOf(h) \notin nodes THEN [status |-> ERROR_KEY_DELETED, vals |-> vals]
    ELSE IF deny THEN [status |-> ERROR_ACCESS_DENIED, vals |-> vals]
    ELSE LET vs == vals[NodeOf(h)]
             j == IndexOf(vs, n)
             v == ValueRec(n, type, data)
         IN [status |-> ERROR_SUCCESS,
             vals |-> [vals EXCEPT ![NodeOf(h)] =
                          IF j = 0 THEN Append(vs, v) ELSE [vs EXCEPT ![j] = v]]]

\* RegDeleteValueW: removes the named value of the node, if it has one.
RegDeleteValueRemovesAny(h, n) ==
    IF ~HandleLive(h) THEN [status |-> ERROR_INVALID_HANDLE, vals |-> vals]
    ELSE IF NodeOf(h) \notin nodes THEN [status |-> ERROR_KEY_DELETED, vals |-> vals]
    ELSE LET vs == vals[NodeOf(h)]
         IN IF vs = <<>>
            THEN [status |-> ERROR_FILE_NOT_FOUND, vals |-> vals]
            ELSE [status |-> ERROR_SUCCESS,
                  vals |-> [vals EXCEPT ![NodeOf(h)] = SubSeq(vs, 1, Len(vs) - 1)]]
RegDeleteValueW(h, n) ==
    IF ~HandleLive(h) THEN [status |-> ERROR_INVALID_HANDLE, vals |-> vals]
    ELSE IF NodeOf(h) \notin nodes THEN [status |-> ERROR_KEY_DELETED, vals |-> vals]
    ELSE LET vs == vals[NodeOf(h)]
             j == IndexOf(vs, n)
         IN IF j = 0
            THEN [status |-> ERROR_FILE_NOT_FOUND, vals |-> vals]
            ELSE [status |-> ERROR_SUCCESS,
                  vals |-> [vals EXCEPT ![NodeOf(h)] =
                               SubSeq(vs, 1, j - 1) \o SubSeq(vs, j + 1, Len(vs))]]

\* The store without the nodes in `gone`: they and their values are removed,
\* and the handles open on them refer to a deleted key from now on.
Without(gone) ==
    [nodes |-> nodes \ gone,
     vals |-> [p \in DOMAIN vals |-> IF p \in gone THEN <<>> ELSE vals[p]],
     hnode |-> [h \in DOMAIN hnode |-> IF hnode[h] \in gone THEN Gone ELSE hnode[h]]]

Untouched == [nodes |-> nodes, vals |-> vals, hnode |-> hnode]

\* RegDeleteKeyExW: removes the node only if it has no subkeys.
RegDeleteKeyRecursive(h, sub) ==
    IF ~HandleLive(h) THEN [status |-> ERROR_INVALID_HANDLE, store |-> Untouched]
    ELSE IF NodeOf(h) \notin nodes THEN [status |-> ERROR_KEY_DELETED, store |-> Untouched]
    ELSE IF NodeOf(h) \o sub \notin nodes
    THEN [status |-> ERROR_FILE_NOT_FOUND, store |-> Untouched]
    ELSE [status |-> ERROR_SUCCESS,
          store |-> Without({q \in nodes : IsPrefix(NodeOf(h) \o sub, q)})]
RegDeleteKeyExW(h, sub) ==
    IF ~HandleLive(h) THEN [status |-> ERROR_INVALID_HANDLE, store |-> Untouched]
    ELSE IF NodeOf(h) \notin nodes THEN [status |-> ERROR_KEY_DELETED, store |-> Untouched]
    ELSE IF NodeOf(h) \o sub \notin nodes
    THEN [status |-> ERROR_FILE_NOT_FOUND, store |-> Untouched]
    ELSE IF Children(nodes, NodeOf(h) \o sub) # {}
    THEN [status |-> ERROR_ACCESS_DENIED, store |-> Untouched]
    ELSE [status |-> ERROR_SUCCESS, store |-> Without({NodeOf(h) \o sub})]

\* RegDeleteTreeW: removes the node and everything beneath it.
RegDeleteTreeLeavesNode(h, sub) ==
    IF ~HandleLive(h) THEN [status |-> ERROR_INVALID_HANDLE, store |-> Untouched]
    ELSE IF NodeOf(h) \notin nodes THEN [status |-> ERROR_KEY_DELETED, store |-> Untouched]
    ELSE IF NodeOf(h) \o sub \notin nodes
    THEN [status |-> ERROR_FILE_NOT_FOUND, store |-> Untouched]
    ELSE [status |-> ERROR_SUCCESS,
          store |-> Without({q \in nodes : IsPrefix(NodeOf(h) \o sub, q)
                                            /\ q # NodeOf(h) \o sub})]
RegDeleteTreeW(h, sub) ==
    IF ~HandleLive(h) THEN [status |-> ERROR_INVALID_HANDLE, store |-> Untouched]
    ELSE IF NodeOf(h) \notin nodes THEN [status |-> ERROR_KEY_DELETED, store |-> Untouched]
    ELSE IF NodeOf(h) \o sub \notin nodes
    THEN [status |-> ERROR_FILE_NOT_FOUND, store |-> Untouched]
    ELSE [status |-> ERROR_SUCCESS,
          store |-> Without({q \in nodes : IsPrefix(NodeOf(h) \o sub, q)})]

\* ------------------------------------------------------- the value setters

\* What a setter records of a call the store accepted.
Written(n, kind, value, h) == [name |-> n, kind |-> kind, value |-> value, node |-> NodeOf(h)]

\* Each setter is one RegSetValueExW call on m_hKey.get() under
\* THROW_IF_WIN32_ERROR: the store's status is what the caller gets.
SetValueClearsFirst(op, k, n, kind, value, type, data, deny) ==
    LET r == RegSetValueExW(m_hKey[k], n, type, data, deny)
        d == RegDeleteValueW(m_hKey[k], n)
    IN /\ alive[k] /\ epc = "idle"
       /\ vals' = IF r.status = ERROR_SUCCESS THEN r.vals ELSE d.vals
       /\ last' = LastOp(op, k, 0, m_hKey[k], <<n>>, r.status)
       /\ wrote' = IF r.status = ERROR_SUCCESS
                   THEN Written(n, kind, value, m_hKey[k]) ELSE wrote
       /\ UNCHANGED <<alive, m_hKey, hnode, closes, nodes>>
       /\ UNCHANGED <<enumVars, strings, mret, decoded, cpc>>
SetValue(op, k, n, kind, value, type, data, deny) ==
    LET r == RegSetValueExW(m_hKey[k], n, type, data, deny)
    IN /\ alive[k] /\ epc = "idle"
       /\ vals' = r.vals
       /\ last' = LastOp(op, k, 0, m_hKey[k], <<n>>, r.status)
       /\ wrote' = IF r.status = ERROR_SUCCESS
                   THEN Written(n, kind, value, m_hKey[k]) ELSE wrote
       /\ UNCHANGED <<alive, m_hKey, hnode, closes, nodes>>
       /\ UNCHANGED <<enumVars, strings, mret, decoded, cpc>>

Key_set_dword_value(k, valueName, val, deny) ==
    SetValue("set_dword_value", k, valueName, "dword", val,
             REG_DWORD, DwordData(val), deny)

Key_set_qword_value(k, valueName, val, deny) ==
    SetValue("set_qword_value", k, valueName, "qword", val,
             REG_QWORD, QwordData(val), deny)

Key_set_string_value(k, valueName, val, deny) ==
    SetValue("set_string_value", k, valueName, "string", val,
             REG_SZ, StringData(val), deny)

Key_set_multistring_value(k, valueName, val, deny) ==
    SetValue("set_multistring_value", k, valueName, "multistring", val,
             REG_MULTI_SZ, MultiStringData(val), deny)

Key_set_expanded_string_value(k, valueName, val, deny) ==
    SetValue("set_expanded_string_value", k, valueName, "expanded_string", val,
             REG_EXPAND_SZ, StringData(val), deny)

\* set_binary_value(valueName, LPCVOID val, DWORD size): `size` bytes at val.
Key_set_binary_value_ptr(k, valueName, val, size, deny) ==
    SetValue("set_binary_value_ptr", k, valueName, "binary", SubSeq(val, 1, size),
             REG_BINARY, BinaryData(val, size), deny)

\* set_binary_value(valueName, std::vector<BYTE> val)
Key_set_binary_value(k, valueName, val, deny) ==
    SetValue("set_binary_value", k, valueName, "binary", val,
             REG_BINARY, BinaryData(val, Len(val)), deny)

SetterOps == {"set_dword_value", "set_qword_value", "set_string_value",
              "set_multistring_value", "set_expanded_string_value",
              "set_binary_value_ptr", "set_binary_value"}

\* ------------------------------------------------- delete_value / _key / _tree

Key_delete_value(k, valueName) ==
    LET r == RegDeleteValueW(m_hKey[k], valueName)
    IN /\ alive[k] /\ epc = "idle"
       /\ vals' = r.vals
       /\ last' = LastOp("delete_value", k, 0, m_hKey[k], <<valueName>>, r.status)
       /\ wrote' = IF r.status = ERROR_SUCCESS
                   THEN Written(valueName, "deleted", <<>>, m_hKey[k]) ELSE wrote
       /\ UNCHANGED <<alive, m_hKey, hnode, closes, nodes>>
       /\ UNCHANGED <<enumVars, strings, mret, decoded, cpc>>

\* The effect of a delete_key / delete_tree call that returned r.
Removal(op, k, sub, r) ==
    /\ alive[k] /\ epc = "idle"
    /\ nodes' = r.store.nodes
    /\ vals' = r.store.vals
    /\ hnode' = r.store.hnode
    /\ last' = LastOp(op, k, 0, m_hKey[k], sub, r.status)
    /\ wrote' = IF wrote.node \in nodes' THEN wrote ELSE NothingWritten
    /\ UNCHANGED <<alive, m_hKey, closes>>
    /\ UNCHANGED <<enumVars, strings, mret, decoded, cpc>>

Key_delete_key(k, subKey) ==
    Removal("delete_key", k, subKey, RegDeleteKeyExW(m_hKey[k], subKey))

Key_delete_tree(k, subKey) ==
    Removal("delete_tree", k, subKey, RegDeleteTreeW(m_hKey[k], subKey))

DeleteOps == {"delete_value", "delete_key", "delete_tree"}

\* --------------------------------------- values: the calls of one program

\* The inputs the callers pass. NameA is the name written; NameC is a value
\* the node already has. 37 is the character '%' of the expansion syntax;
\* <<513, 1027>> is the DWORD 0x04030201.
WriteNames == {NameA}
DWords == {<<0, 0>>, <<513, 1027>>, <<UnitMax, UnitMax>>}
QWords == {<<0, 0, 0, 0>>, <<UnitMax, UnitMax, UnitMax, UnitMax>>}
Texts == {<<>>, <<37, 1, 37>>}
TextLists == {<<>>, <<NameA, NameB>>}
Blobs == {<<>>, <<255>>}
BlobAt == <<9, 8>>

\* An enumerator called by the program that makes the other calls: the call
\* is recorded like theirs.
Key_enum(k, kind) ==
    /\ EnumBegin(k, kind)
    /\ last' = LastOp(kind, k, 0, m_hKey[k], <<>>, RegQueryInfoKeyW(m_hKey[k]).status)
    /\ UNCHANGED <<alive, m_hKey, hnode, closes, nodes, vals>>
    /\ UNCHANGED sideVars

\* k = std::move(src) between two calls.
Key_move_between(k, src) == epc = "idle" /\ k # src /\ Key_move_assign(k, src)

\* Key 1 is Key(root, L""): it holds a handle of its own to the root node,
\* which has the value NameC and the subkey NameA; the other Keys are
\* default-constructed.
InitOps ==
    /\ alive = [k \in Keys |-> TRUE]
    /\ m_hKey = [k \in Keys |-> IF k = 1 THEN 1 ELSE NullH]
    /\ hnode = << <<>> >>
    /\ closes = [h \in AllH |-> 0]
    /\ nodes = {<<>>, <<NameA>>}
    /\ vals = [NoValues EXCEPT
                  ![<<>>] = <<ValueRec(NameC, REG_DWORD, <<42, 0, 0, 0>>)>>,
                  ![<<NameA>>] = <<ValueRec(NameA, REG_BINARY, <<9>>)>>]
    /\ last = LastOp("ctor", MaxKeys, 0, NullH, <<>>, ERROR_SUCCESS)
    /\ EnumIdle
    /\ SideIdle

NextOps ==
    \/ \E k \in Keys, n \in WriteNames, v \in DWords, d \in BOOLEAN :
          Key_set_dword_value(k, n, v, d)
    \/ \E k \in Keys, n \in WriteNames, v \in QWords, d \in BOOLEAN :
          Key_set_qword_value(k, n, v, d)
    \/ \E k \in Keys, n \in WriteNames, v \in Texts, d \in BOOLEAN :
          Key_set_string_value(k, n, v, d)
    \/ \E k \in Keys, n \in WriteNames, v \in TextLists, d \in BOOLEAN :
          Key_set_multistring_value(k, n, v, d)
    \/ \E k \in Keys, n \in WriteNames, v \in Texts, d \in BOOLEAN :
          Key_set_expanded_string_value(k, n, v, d)
    \/ \E k \in Keys, n \in WriteNames, size \in {1, 2}, d \in BOOLEAN :
          Key_set_binary_value_ptr(k, n, BlobAt, size, d)
    \/ \E k \in Keys, n \in WriteNames, v \in Blobs, d \in BOOLEAN :
          Key_set_binary_value(k, n, v, d)
    \/ \E k \in Keys, n \in ValueNames : Key_delete_value(k, n)
    \/ \E k \in Keys, s \in DeletePaths : Key_delete_key(k, s)
    \/ \E k \in Keys, s \in DeletePaths : Key_delete_tree(k, s)
    \/ \E k \in Keys, kind \in EnumKinds : Key_enum(k, kind)
    \/ Enum_step
    \/ Enum_return
    \/ Enum_finish
    \/ \E k \in Keys, s \in Keys : Key_move_between(k, s)

SpecOps == InitOps /\ [][NextOps]_vars

\* ------------------------------------------------- lifecycle: the claims

\* The node a create / open call names.
TargetOf(op) == NodeOf(op.parent) \o op.sub

AcquireOps == {"create", "open", "ctor_create"}

\* The step is a create / open / constructor call that succeeded: it issued a
\* handle, or changed what the Key holds, or closed what it held.
Acquired ==
    /\ last'.op \in AcquireOps /\ last'.status = ERROR_SUCCESS
    /\ (hnode' # hnode \/ m_hKey' # m_hKey \/ closes' # closes)

\* The handle that call returned: the parent itself, or the one just issued.
Returned == IF hnode' # hnode THEN Len(hnode') ELSE last'.parent

\* Every issued handle is either held by exactly one constructed Key and not
\* closed, or held by none and closed exactly once; the empty handle is never
\* closed.
CloseOnceInv ==
    /\ \A h \in Issued :
          \/ closes[h] = 0 /\ Cardinality(Holders(h)) = 1
          \/ closes[h] = 1 /\ Holders(h) = {}
    /\ closes[NullH] = 0
    /\ \A h \in (1..MaxHandles) \ Issued : closes[h] = 0

\* Destroying an empty Key makes no RegCloseKey call and leaves the others alone.
DtorOfInvalidStep ==
    (last'.op = "dtor" /\ last' # last /\ ~Key_is_valid(last'.key))
        => /\ closes' = closes
           /\ \A j \in Keys \ {last'.key} : m_hKey'[j] = m_hKey[j] /\ alive'[j] = alive[j]

\* Destroying a Key that holds a handle closes that handle and no other: an
\* issued handle has then been closed once, the predefined root once more.
DtorOfOpenStep ==
    (last'.op = "dtor" /\ alive[last'.key] /\ ~alive'[last'.key] /\ Key_is_valid(last'.key))
        => closes' = [closes EXCEPT ![m_hKey[last'.key]] =
                          IF m_hKey[last'.key] \in Issued THEN 1 ELSE @ + 1]

\* The predefined root is closed once for each time a Key was handed it: only
\* open(root, L"") hands it out, and every other step that closes it takes it
\* from the Key that held it.
RootHandoutStep ==
    LET adopts == Acquired /\ hnode' = hnode
    IN RootHandouts' = RootHandouts + (IF adopts THEN 1 ELSE 0)

ExclusiveInv ==
    \A k1, k2 \in Keys :
        (alive[k1] /\ alive[k2] /\ k1 # k2 /\ Key_is_valid(k1)) => m_hKey[k1] # m_hKey[k2]

\* A move leaves the source empty and the destination holding the source's handle.
MoveStep ==
    (last'.op \in {"move_ctor", "move_assign"} /\ last' # last /\ last'.key # last'.src)
        => /\ m_hKey'[last'.key] = m_hKey[last'.src]
           /\ m_hKey'[last'.src] = NullH

\* The handle passed as hKeyParent is not the one the Key holds afterwards.
ParentNotAdoptedStep == Acquired => m_hKey'[last'.key] # last'.parent

\* The handle passed as hKeyParent gets no RegCloseKey call.
ParentNotClosedStep == Acquired => closes'[last'.parent] = closes[last'.parent]

\* The predefined root is never closed.
ParentSurvivesInv == closes[RootH] = 0

\* C2 as stated: each live handle is held by at most one Key, a move leaves the
\* source Invalid and the destination holding the handle, and the parent handle
\* passed to create / open / the constructors is never adopted nor closed by
\* the Key.
C2_Original ==
    [](ExclusiveInv /\ ParentSurvivesInv)
    /\ [][MoveStep /\ ParentNotAdoptedStep /\ ParentNotClosedStep]_vars

\* No two constructed Keys hold the same handle issued by the store.
ExclusiveIssuedInv ==
    \A k1, k2 \in Keys :
        (alive[k1] /\ alive[k2] /\ k1 # k2 /\ m_hKey[k1] \in Issued) => m_hKey[k1] # m_hKey[k2]

\* The Key holds the handle passed as hKeyParent afterwards exactly when the
\* call was open(parent, L"") on a predefined root, which returns the parent.
ParentAdoptedOnlyRootStep ==
    Acquired =>
        (m_hKey'[last'.key] = last'.parent
            <=> (last'.op = "open" /\ IsPredefined(last'.parent) /\ last'.sub = <<>>))

\* The handle passed as hKeyParent is not closed by the call, unless it is the
\* handle the Key itself held before the call.
ForeignParentNotClosedStep ==
    (Acquired /\ last'.parent # m_hKey[last'.key])
        => closes'[last'.parent] = closes[last'.parent]

\* Whatever a Key does, RegCloseKey is only ever called on the handle that Key
\* held before the step, and every handle not closed in the step is as usable
\* as it was.
ClosedOnlyByHolderStep ==
    \A h \in AllH :
        IF closes'[h] # closes[h]
        THEN h = m_hKey[last'.key] /\ closes'[h] = closes[h] + 1
        ELSE HandleLive(h) => HandleLive(h)'

\* C2 amended: each handle the store issued is held by at most one Key (the
\* predefined root may be held by several); a move leaves the source Invalid
\* and the destination holding the handle; the parent handle is adopted only
\* by open(parent, L"") on a predefined root, where the call returns the parent
\* itself; a parent is closed by create / open only if it is the handle the
\* Key itself already held; and a Key closes no handle but the one it holds,
\* so every other parent is as usable after the Key is destroyed as before.
C2_ExclusiveOwnership ==
    []ExclusiveIssuedInv
    /\ [][MoveStep /\ ParentAdoptedOnlyRootStep /\ ForeignParentNotClosedStep
          /\ ClosedOnlyByHolderStep /\ DtorOfOpenStep]_vars

\* Key 1 was handed the predefined root by open(root, L"") and has been
\* destroyed, which closed the root once; Key 2 holds a handle of its own,
\* opened under the root and unclosed, and the root is still accepted.
C2_Witness ==
    /\ last.op = "dtor" /\ last.key = 1 /\ last.parent = RootH
    /\ closes[RootH] = 1 /\ HandleLive(RootH)
    /\ alive[2] /\ m_hKey[2] \in Issued /\ closes[m_hKey[2]] = 0

\* A Key is Invalid (holds the empty handle) or Open (holds an issued handle
\* that has not been closed), and is_valid / operator bool tell which.
TwoStatesInv ==
    \A k \in Keys :
        /\ m_hKey[k] = NullH \/ HandleLive(m_hKey[k])
        /\ Key_is_valid(k) <=> (m_hKey[k] # NullH /\ HandleLive(m_hKey[k]))
        /\ Key_bool(k) <=> Key_is_valid(k)
        /\ ~alive[k] => m_hKey[k] = NullH

DefaultCtorStep ==
    (last'.op = "ctor" /\ last' # last) => ~IsValidH(m_hKey'[last'.key])

BecomesOpen(k) == ~Key_is_valid(k) /\ Key_is_valid(k)'

\* A Key becomes Open only in a successful create / open.
OpenOnlyByAcquireStep ==
    \A k \in Keys :
        BecomesOpen(k) => (last'.op \in AcquireOps /\ last'.key = k /\ last'.status = ERROR_SUCCESS)

\* A Key becomes Open only in a successful create / open, or as the destination
\* of a move from an Open Key.
OpenOnlyByAcquireOrMoveStep ==
    \A k \in Keys :
        BecomesOpen(k) =>
            \/ last'.op \in AcquireOps /\ last'.key = k /\ last'.status = ERROR_SUCCESS
            \/ /\ last'.op \in {"move_ctor", "move_assign"} /\ last'.key = k
               /\ Key_is_valid(last'.src) /\ ~IsValidH(m_hKey'[last'.src])

\* C3 as stated: a Key is Invalid or Open, a default-constructed Key is
\* Invalid, a Key becomes Open only through a successful create or open, and
\* is_valid() / operator bool are true exactly when it holds a non-empty handle.
C3_Original ==
    []TwoStatesInv /\ [][DefaultCtorStep /\ OpenOnlyByAcquireStep]_vars

\* C3 amended: as C3, but a Key also becomes Open by being the destination of a
\* move (move construction or move assignment) from an Open Key.
C3_TwoStates ==
    []TwoStatesInv /\ [][DefaultCtorStep /\ OpenOnlyByAcquireOrMoveStep]_vars

\* A default-constructed Key (Invalid) beside a Key made Open by create.
C3_Witness ==
    /\ alive[1] /\ alive[2]
    /\ ~Key_is_valid(1) /\ Key_is_valid(2)
    /\ last.op = "ctor" /\ last.key = 1

\* open of an absent node: NotFound, and the store and the Key are unchanged.
OpenAbsentStep ==
    (last'.op = "open" /\ last' # last /\ HandleLive(last'.parent) /\ TargetOf(last') \notin nodes)
        => /\ last'.status = ERROR_FILE_NOT_FOUND
           /\ nodes' = nodes /\ vals' = vals /\ hnode' = hnode /\ m_hKey' = m_hKey

\* open never changes the tree, and it succeeds only on a present node.
OpenPresentStep ==
    (last'.op = "open" /\ Acquired)
        => /\ TargetOf(last') \in nodes
           /\ nodes' = nodes /\ vals' = vals
           /\ NodeIn(hnode', m_hKey'[last'.key]) = TargetOf(last')

\* A successful create leaves the node present, holds a handle to it, and
\* changes no value and no node other than the absent ones on the way to it.
CreateStep ==
    (last'.op \in {"create", "ctor_create"} /\ Acquired)
        => /\ TargetOf(last') \in nodes'
           /\ NodeIn(hnode', m_hKey'[last'.key]) = TargetOf(last')
           /\ vals' = vals
           /\ nodes \subseteq nodes'
           /\ (TargetOf(last') \in nodes => nodes' = nodes)
           /\ nodes' \ nodes \subseteq Prefixes(TargetOf(last'))

\* C4: open succeeds only when the node exists; on an absent node it fails
\* with NotFound and creates nothing; create on an absent node creates it and
\* on a present node opens it without altering its values or children.
C4_OpenVsCreate == [][OpenAbsentStep /\ OpenPresentStep /\ CreateStep]_vars

\* An open of an absent node has just failed with NotFound, after a create
\* made the absent node A\B.
C4_Witness ==
    /\ last.op = "open" /\ last.status = ERROR_FILE_NOT_FOUND
    /\ HandleLive(last.parent) /\ TargetOf(last) \notin nodes
    /\ <<NameA, NameB>> \in nodes

\* C5: a create or open that fails throws an error carrying the store's status
\* code, acquires no handle, and leaves the Key as it was: an Invalid Key
\* stays Invalid, an Open Key keeps its handle, which is not closed.
C5_FailureLeavesKey ==
    [][(last'.op \in AcquireOps /\ last' # last /\ last'.status # ERROR_SUCCESS)
          => /\ last'.thrown < 0
             /\ HRESULT_CODE(last'.thrown) = last'.status
             /\ hnode' = hnode
             /\ m_hKey' = m_hKey
             /\ closes' = closes
             /\ nodes' = nodes]_vars

\* An open on an Open Key has just failed with access denied; the Key still
\* holds its unclosed handle.
C5_Witness ==
    /\ last.op = "open" /\ last.status = ERROR_ACCESS_DENIED
    /\ alive[last.key] /\ Key_is_valid(last.key)
    /\ closes[m_hKey[last.key]] = 0
    /\ HRESULT_CODE(last.thrown) = ERROR_ACCESS_DENIED

\* A create or open that succeeds on a Key that holds a handle closes that
\* handle, once, and no other, and the Key then holds the handle the call
\* returned: an issued handle held before has then been closed exactly once,
\* and a handle just issued is another one, unclosed.
ReacquireStep ==
    (last'.op \in {"create", "open"} /\ Acquired /\ Key_is_valid(last'.key))
        => LET held == m_hKey[last'.key]
               hNew == Returned
           IN /\ closes'[held] = closes[held] + 1
              /\ held \in Issued => closes[held] = 0
              /\ m_hKey'[last'.key] = hNew
              /\ hNew \in Issued' => (hNew # held /\ closes'[hNew] = 0)
              /\ \A h \in AllH \ {held} : closes'[h] = closes[h]

\* A handle that has been closed is held by no Key and is never closed again,
\* whatever is destroyed or re-acquired later.
ReleasedOnceStep ==
    \A h \in Issued : closes[h] = 1 => (closes'[h] = 1 /\ \A k \in Keys : m_hKey'[k] # h)

\* No handle is closed twice, and every handle is held or closed.
HeldOrReleasedInv ==
    \A h \in Issued :
        /\ closes[h] <= 1
        /\ closes[h] = 0 <=> Holders(h) # {}

ExpectedList ==
    LET p == NodeOf(m_hKey[ekey])
        vs == vals[p]
    IN IF ekind = "subkeys" THEN SubKeyNames(p)
       ELSE IF ekind = "value_names" THEN [j \in 1..Len(vs) |-> vs[j].name]
       ELSE [j \in 1..Len(vs) |->
                [name |-> vs[j].name,
                 value |-> [type |-> vs[j].type, data |-> vs[j].data,
                            length |-> Len(vs[j].data)]]]

\* Item j of the node fits the buffers allocated after the size query.
Fits(j) ==
    LET p == NodeOf(m_hKey[ekey])
    IN IF ekind = "subkeys" THEN Len(SubKeyNames(p)[j]) + 1 <= ecapName
       ELSE /\ Len(vals[p][j].name) + 1 <= ecapName
            /\ ekind = "values" => Len(vals[p][j].data) <= ecapVal

\* The indices the sweep visits that hold an item now.
Swept == 1..(IF ecount < Len(ExpectedList) THEN ecount ELSE Len(ExpectedList))

\* Every change the other actor made came before the first per-index call.
InWindow == \A j \in 1..Len(emut) : emut[j].at = 0

\* The other actor made changes, all in the window and all of this kind.
WindowOnly(kind) == emut # <<>> /\ InWindow /\ \A j \in 1..Len(emut) : emut[j].kind = kind

\* C6: with no change by another actor between the size query and the end of
\* the sweep, each enumerator called on an Open Key succeeds and returns
\* exactly `count` entries, the node's items in index order: no per-index call
\* fails for lack of buffer space, whatever the order of short and long items.
C6_CountWithoutMutation ==
    (epc = "done" /\ Key_is_valid(ekey) /\ emut = <<>>)
        => /\ eres.ok
           /\ estatus = ERROR_SUCCESS
           /\ Len(eres.list) = ecount
           /\ eres.list = ExpectedList

\* enum_values returned two values, a short name before a longer one, with no
\* change by another actor.
C6_Witness ==
    /\ epc = "done" /\ ekind = "values" /\ emut = <<>> /\ eres.ok
    /\ Len(eres.list) = 2
    /\ Len(eres.list[1].name) < Len(eres.list[2].name)

\* C7: an enumeration completes fully or fails entirely: when the size query
\* or a per-index call returns a non-success status the enumerator returns that
\* error and no collection; a returned collection always has `count` entries.
C7_AllOrNothing ==
    epc = "done"
        => /\ eret = <<>>
           /\ IF estatus = ERROR_SUCCESS
              THEN eres.ok /\ eres.status = ERROR_SUCCESS /\ Len(eres.list) = ecount
              ELSE ~eres.ok /\ eres.status = estatus /\ eres.list = <<>>

\* A per-index call failed after at least one item had been collected.
C7_Witness ==
    /\ epc = "done" /\ ~eres.ok /\ ei >= 1
    /\ eres.status = ERROR_NO_MORE_ITEMS /\ eres.list = <<>>

\* C8 as stated: if another actor removes items between the size query and
\* the sweep, the enumeration still returns successfully, with fewer entries
\* than the queried count; if another actor adds items in that window, it
\* returns successfully with at most the queried count of entries.
C8_Original ==
    epc = "done"
        => /\ WindowOnly("remove") => (eres.ok /\ Len(eres.list) < ecount)
           /\ WindowOnly("add") => (eres.ok /\ Len(eres.list) <= ecount)

\* C8 amended: if another actor removes items between the size query and the
\* sweep, the enumeration fails with the store's no-more-items status and
\* returns no collection; if another actor adds items in that window, the
\* enumeration returns successfully with exactly the queried count of entries
\* (possibly omitting new items) when every item at an index below the queried
\* count fits the buffers, and otherwise fails with the more-data status.
C8_RacingRemovalFails ==
    epc = "done"
        => /\ WindowOnly("remove")
                => (~eres.ok /\ eres.status = ERROR_NO_MORE_ITEMS /\ eres.list = <<>>)
           /\ WindowOnly("add")
                => IF \A j \in Swept : Fits(j)
                   THEN eres.ok /\ Len(eres.list) = ecount
                   ELSE ~eres.ok /\ eres.status = ERROR_MORE_DATA /\ eres.list = <<>>

\* enum_value_names failed after another actor deleted a value in the window.
C8_Witness ==
    /\ epc = "done" /\ ekind = "value_names"
    /\ WindowOnly("remove")
    /\ ~eres.ok /\ eres.status = ERROR_NO_MORE_ITEMS

\* A successful per-index call appends exactly the item the store holds at
\* that index: its whole name and, for enum_values, its type and all its bytes.
StepExact ==
    (epc = "sweep" /\ epc' = "sweep" /\ ei' = ei + 1)
        => /\ Len(eret') = ei + 1
           /\ eret'[ei + 1] = ExpectedList[ei + 1]

\* C9: if another actor, between the size query and the sweep, makes an item
\* at a swept index need more than the queried maximum (name or data), the
\* enumeration fails with the store's more-data status; and no enumeration
\* ever collects a truncated or corrupted name or value.
C9_GrownItemFails ==
    []((epc = "done" /\ Key_is_valid(ekey) /\ InWindow /\ \E j \in Swept : ~Fits(j))
          => (~eres.ok /\ eres.status = ERROR_MORE_DATA /\ eres.list = <<>>))
    /\ [][StepExact]_vars

\* enum_values failed with more-data after another actor replaced a value's
\* data by longer data in the window.
C9_Witness ==
    /\ epc = "done" /\ ekind = "values"
    /\ emut # <<>> /\ InWindow /\ \A j \in 1..Len(emut) : emut[j].kind = "set"
    /\ \E j \in Swept : Len(vals[EnumNode][j].data) > ecapVal
    /\ ~eres.ok /\ eres.status = ERROR_MORE_DATA

\* The Values collected or returned.
ValuesHeld ==
    IF ekind # "values" THEN {}
    ELSE {eret[j].value : j \in 1..Len(eret)}
         \cup (IF epc = "done" THEN {eres.list[j].value : j \in 1..Len(eres.list)} ELSE {})

\* A Value pushed by enum_values has the store's byte count and bytes for its
\* index, and pushing it leaves the Values pushed before as they were.
ValueStep ==
    (ekind = "values" /\ epc = "sweep" /\ epc' = "sweep" /\ ei' = ei + 1)
        => /\ eret'[ei + 1].value.length = Len(vals[EnumNode][ei + 1].data)
           /\ eret'[ei + 1].value.data = vals[EnumNode][ei + 1].data
           /\ eret'[ei + 1].value.type = vals[EnumNode][ei + 1].type
           /\ \A j \in 1..Len(eret) : eret'[j] = eret[j]

\* Returning hands the collected Values over unchanged.
ReturnStep ==
    (ekind = "values" /\ epc = "sweep" /\ epc' = "done" /\ eres'.ok) => eres'.list = eret

\* C10: every Value of enum_values has `length` equal to the byte length the
\* store reported for its index and within its own data buffer, and the bytes
\* of the Value for index i are not changed by the calls for later indices.
C10_ValuesOwnTheirBytes ==
    [](\A v \in ValuesHeld : v.length = Len(v.data))
    /\ [][ValueStep /\ ReturnStep]_vars

\* enum_values returned a 4-byte value followed by a 1-byte value, which the
\* sweep buffer held together.
C10_Witness ==
    /\ epc = "done" /\ ekind = "values" /\ eres.ok
    /\ Len(eres.list) = 2
    /\ eres.list[1].value.length = 4 /\ eres.list[1].value.data = <<42, 0, 0, 0>>
    /\ eres.list[2].value.length = 1

\* ---------------------------------------------------- values: the claims

\* The registry type tag of each kind of value the setters write.
KindTag(kind) ==
    CASE kind = "dword" -> REG_DWORD
      [] kind = "qword" -> REG_QWORD
      [] kind = "string" -> REG_SZ
      [] kind = "expanded_string" -> REG_EXPAND_SZ
      [] kind = "multistring" -> REG_MULTI_SZ
      [] kind = "binary" -> REG_BINARY

\* The bytes the setter of each kind passes to the store for `value`.
KindData(kind, value) ==
    CASE kind = "dword" -> DwordData(value)
      [] kind = "qword" -> QwordData(value)
      [] kind \in {"string", "expanded_string"} -> StringData(value)
      [] kind = "multistring" -> MultiStringData(value)
      [] kind = "binary" -> value

\* The values of a node other than the one named n, in order.
Others(vs, n) == SelectSeq(vs, LAMBDA v : v.name # n)

\* The entries of a sequence of values that are named n.
Named(vs, n) == SelectSeq(vs, LAMBDA v : v.name = n)

\* The record of the last write changes in this step.
WroteChanged ==
    \/ wrote'.kind # wrote.kind
    \/ wrote'.name # wrote.name
    \/ wrote'.kind = wrote.kind /\ wrote'.value # wrote.value

\* This step is a call of a setter (a setter records the value name as `sub`).
SetterCall == last'.op \in SetterOps /\ (last' # last \/ WroteChanged)

\* A setter changes no Key, no handle and no node.
SetterKeepsTreeStep ==
    SetterCall => /\ nodes' = nodes /\ hnode' = hnode
                  /\ m_hKey' = m_hKey /\ closes' = closes /\ alive' = alive

\* A setter the store accepted leaves exactly one value of that name on the
\* Key's node, with the kind's type tag and all the new bytes, in the place of
\* the old value if there was one and after the other values if not; the other
\* values of the node and the values of the other nodes are as before.
SetterSuccessStep ==
    (SetterCall /\ last'.status = ERROR_SUCCESS)
        => LET p == NodeOf(last'.parent)
               n == last'.sub[1]
               v == ValueRec(n, KindTag(wrote'.kind), KindData(wrote'.kind, wrote'.value))
               j == IndexOf(vals[p], n)
           IN /\ Key_is_valid(last'.key) /\ wrote'.name = n /\ wrote'.node = p
              /\ Named(vals'[p], n) = <<v>>
              /\ Others(vals'[p], n) = Others(vals[p], n)
              /\ Len(vals'[p]) = Len(vals[p]) + (IF j = 0 THEN 1 ELSE 0)
              /\ vals'[p][IF j = 0 THEN Len(vals'[p]) ELSE j] = v
              /\ \A q \in DOMAIN vals : q # p => vals'[q] = vals[q]

\* A setter the store rejected returns the store's status as an error and
\* leaves every value, the named one included, exactly as it was.
SetterFailureStep ==
    (SetterCall /\ last'.status # ERROR_SUCCESS)
        => /\ vals' = vals
           /\ ~WroteChanged
           /\ last'.thrown < 0 /\ HRESULT_CODE(last'.thrown) = last'.status

\* C11: every typed setter makes one store write, so after a setter call the
\* named value is either fully replaced by the new type tag and bytes, or, when
\* the store rejects the write, left exactly as it was with an error returned;
\* no setter creates a key or touches any other value.
C11_SetterAllOrNothing ==
    [][SetterKeepsTreeStep /\ SetterSuccessStep /\ SetterFailureStep]_vars

\* set_string_value on the Open Key has just been rejected by the store, and
\* the value of that name is still the QWORD written before it, next to the
\* value the node had from the start.
C11_Witness ==
    /\ last.op = "set_string_value" /\ last.status = ERROR_ACCESS_DENIED
    /\ Key_is_valid(last.key)
    /\ wrote.kind = "qword"
    /\ vals[NodeOf(last.parent)] =
          <<ValueRec(NameC, REG_DWORD, <<42, 0, 0, 0>>),
            ValueRec(NameA, REG_QWORD, <<255, 255, 255, 255, 255, 255, 255, 255>>)>>

\* The 16-bit units a reader finds in a value's bytes (little-endian pairs).
ReadUnits(bytes) ==
    [j \in 1..(Len(bytes) \div 2) |-> bytes[2 * j - 1] + 256 * bytes[2 * j]]

\* The multi-text wire form: each string's characters and one NUL, in list
\* order, then one final NUL; two NULs and nothing else for the empty list.
MultiTextWire(list) ==
    IF list = <<>> THEN <<NUL, NUL>> ELSE Append(JoinStrings(list), NUL)

\* `data` is the fixed wire form of value v of the kind: 4 bytes for a 32-bit
\* integer, 8 for a 64-bit one, the characters and one trailing NUL for text
\* and expandable text, the multi-text wire form for a list, the caller's
\* bytes for binary.
IsWireForm(kind, v, data) ==
    CASE kind = "dword" -> Len(data) = 4 /\ ReadUnits(data) = v
      [] kind = "qword" -> Len(data) = 8 /\ ReadUnits(data) = v
      [] kind \in {"string", "expanded_string"} ->
            Len(data) = 2 * (Len(v) + 1) /\ ReadUnits(data) = Append(v, NUL)
      [] kind = "multistring" ->
            Len(data) = 2 * Len(MultiTextWire(v)) /\ ReadUnits(data) = MultiTextWire(v)
      [] kind = "binary" -> data = v

\* enum_values has returned on a Key open on the node of the last accepted
\* set, and the value set has not been deleted since.
ReadBack ==
    /\ epc = "done" /\ ekind = "values" /\ Key_is_valid(ekey)
    /\ wrote.kind \notin {"none", "deleted"}
    /\ NodeOf(m_hKey[ekey]) = wrote.node

\* The entries enum_values returned under the name last written.
EntriesRead == SelectSeq(eres.list, LAMBDA e : e.name = wrote.name)

\* enum_values returns exactly one entry of the name last written, with the
\* kind's type tag and the wire form of the value as its bytes.
RoundTrip ==
    /\ eres.ok
    /\ Len(EntriesRead) = 1
    /\ EntriesRead[1].value.type = KindTag(wrote.kind)
    /\ EntriesRead[1].value.length = Len(EntriesRead[1].value.data)
    /\ IsWireForm(wrote.kind, wrote.value, EntriesRead[1].value.data)

\* C12: for every supported kind, after a successful set of value v under
\* name n on an Open Key, a following enum_values on the Key contains exactly
\* one entry named n, with that kind's type tag and the fixed wire form of v
\* as its bytes (zero and maximum-magnitude integers and empty text included).
C12_RoundTripThroughStore == ReadBack => RoundTrip

\* The same for every value but the empty multi-text list.
RoundTripButEmptyList ==
    (ReadBack /\ ~(wrote.kind = "multistring" /\ wrote.value = <<>>)) => RoundTrip

\* enum_values has read back a value of the kind, each kind in turn.
ReadBackOf(kind, v) == ReadBack /\ wrote.kind = kind /\ wrote.value = v /\ eres.ok

\* ------------------------------------------- the tree: create, open, delete

\* Key 1 is Key(root, L""): it holds a handle of its own to the root node,
\* under which A and A\B exist with a value each; the other Keys are
\* default-constructed.
InitTree ==
    /\ alive = [k \in Keys |-> TRUE]
    /\ m_hKey = [k \in Keys |-> IF k = 1 THEN 1 ELSE NullH]
    /\ hnode = << <<>> >>
    /\ closes = [h \in AllH |-> 0]
    /\ nodes = {<<>>, <<NameA>>, <<NameA, NameB>>}
    /\ vals = [NoValues EXCEPT
                  ![<<NameA>>] = <<ValueRec(NameC, REG_DWORD, <<42, 0, 0, 0>>)>>,
                  ![<<NameA, NameB>>] = <<ValueRec(NameA, REG_BINARY, <<9>>)>>]
    /\ last = LastOp("ctor", MaxKeys, 0, NullH, <<>>, ERROR_SUCCESS)
    /\ EnumIdle
    /\ SideIdle

NextTree ==
    \/ \E k \in Keys, p \in ParentChoices, s \in TreePaths, d \in BOOLEAN :
          Key_create(k, p, s, d)
    \/ \E k \in Keys, p \in ParentChoices, s \in TreePaths, d \in BOOLEAN :
          Key_open(k, p, s, d)
    \/ \E k \in Keys, n \in WriteNames, d \in BOOLEAN :
          Key_set_dword_value(k, n, <<42, 0>>, d)
    \/ \E k \in Keys, s \in DeletePaths : Key_delete_key(k, s)
    \/ \E k \in Keys, s \in DeletePaths : Key_delete_tree(k, s)

SpecTree == InitTree /\ [][NextTree]_vars

\* --------------------------------------------------- the tree: the claims

\* The node a delete_key / delete_tree call names, for a call on a handle the
\* store accepts.
OnLiveNode(op) == HandleLive(op.parent) /\ NodeOf(op.parent) \in nodes

\* The nodes at or beneath node t.
Beneath(t) == {q \in AllPaths : IsPrefix(t, q)}

\* This step is a call of the named delete operation.
DeleteCall(name) == last'.op = name /\ (last' # last \/ nodes' # nodes)

\* A successful delete_tree removes the node and every node and value beneath
\* it, and nothing else.
DeleteTreeStep ==
    (DeleteCall("delete_tree") /\ last'.status = ERROR_SUCCESS)
        => /\ OnLiveNode(last') /\ TargetOf(last') \in nodes
           /\ \A q \in Beneath(TargetOf(last')) : q \notin nodes' /\ vals'[q] = <<>>
           /\ \A q \in AllPaths \ Beneath(TargetOf(last')) :
                 (q \in nodes' <=> q \in nodes) /\ vals'[q] = vals[q]

\* delete_tree of a present node under a handle the store accepts succeeds,
\* children or not.
DeleteTreeSucceedsStep ==
    (DeleteCall("delete_tree") /\ OnLiveNode(last') /\ TargetOf(last') \in nodes)
        => last'.status = ERROR_SUCCESS

\* An open of an absent node under a handle the store accepts fails with
\* NotFound, acquires nothing and creates nothing.
OpenOfAbsentStep ==
    (last'.op = "open" /\ last' # last /\ OnLiveNode(last') /\ TargetOf(last') \notin nodes)
        => /\ last'.status = ERROR_FILE_NOT_FOUND
           /\ HRESULT_CODE(last'.thrown) = ERROR_FILE_NOT_FOUND
           /\ nodes' = nodes /\ hnode' = hnode /\ m_hKey' = m_hKey

\* C16: after a successful delete_tree(subpath) the node at subpath and every
\* node and value beneath it are absent from the store, also when the node had
\* children, and a later open of that subpath fails with NotFound.
C16_DeleteTreeRemovesAll ==
    [][DeleteTreeStep /\ DeleteTreeSucceedsStep /\ OpenOfAbsentStep]_vars

\* A, which had the child A\B and values, is gone with everything beneath it,
\* and open("A") on the Key that deleted it has just failed with NotFound.
C16_Witness ==
    /\ last.op = "open" /\ last.status = ERROR_FILE_NOT_FOUND
    /\ last.parent = 1 /\ HandleLive(1) /\ last.sub = <<NameA>>
    /\ hnode = << <<>> >>
    /\ nodes = {<<>>}
    /\ \A q \in AllPaths : vals[q] = <<>>

\* delete_key of a node with children fails and leaves the store as it was;
\* of a node without children it succeeds and removes that node (with its
\* values) and nothing else.
DeleteKeyStep ==
    (DeleteCall("delete_key") /\ OnLiveNode(last') /\ TargetOf(last') \in nodes)
        => IF Children(nodes, TargetOf(last')) # {}
           THEN /\ last'.status # ERROR_SUCCESS /\ last'.thrown < 0
                /\ nodes' = nodes /\ vals' = vals /\ hnode' = hnode
           ELSE /\ last'.status = ERROR_SUCCESS
                /\ nodes' = nodes \ {TargetOf(last')}
                /\ vals' = [vals EXCEPT ![TargetOf(last')] = <<>>]

\* delete_key succeeds only on a present node without children.
DeleteKeyOnlyLeafStep ==
    (DeleteCall("delete_key") /\ last'.status = ERROR_SUCCESS)
        => /\ OnLiveNode(last') /\ TargetOf(last') \in nodes
           /\ Children(nodes, TargetOf(last')) = {}

\* C17: delete_key on a child node that has children fails with an error and
\* leaves that node, its children and its values all present; it succeeds
\* only on a child node without children, removing just that node.
C17_DeleteKeyNeedsLeaf == [][DeleteKeyStep /\ DeleteKeyOnlyLeafStep]_vars

\* delete_key("A") has just failed: A, its child A\B and their values are
\* all still there.
C17_Witness ==
    /\ last.op = "delete_key" /\ last.sub = <<NameA>> /\ last.status = ERROR_ACCESS_DENIED
    /\ last.parent = 1 /\ HandleLive(1) /\ hnode[1] = <<>>
    /\ {<<NameA>>, <<NameA, NameB>>} \subseteq nodes
    /\ vals[<<NameA>>] # <<>> /\ vals[<<NameA, NameB>>] # <<>>

\* ------------------------------------------- values: deleting and Invalid Keys

\* The names of a node's values, in the store's order.
NamesOf(vs) == [j \in 1..Len(vs) |-> vs[j].name]

\* This step is a call of delete_value (it records the value name as `sub`).
DeleteValueCall == last'.op = "delete_value" /\ (last' # last \/ vals' # vals)

\* delete_value of a name the node has no value of fails with NotFound and
\* changes no value; of a present name it removes that value and no other.
DeleteValueStep ==
    (DeleteValueCall /\ OnLiveNode(last'))
        => LET p == NodeOf(last'.parent)
               n == last'.sub[1]
           IN IF IndexOf(vals[p], n) = 0
              THEN /\ last'.status = ERROR_FILE_NOT_FOUND
                   /\ HRESULT_CODE(last'.thrown) = ERROR_FILE_NOT_FOUND
                   /\ vals' = vals
              ELSE /\ last'.status = ERROR_SUCCESS
                   /\ Named(vals'[p], n) = <<>>
                   /\ Others(vals'[p], n) = Others(vals[p], n)
                   /\ vals'[p] = Others(vals[p], n)
                   /\ \A q \in DOMAIN vals : q # p => vals'[q] = vals[q]
                   /\ nodes' = nodes

\* enum_value_names on an Open Key lists the names of the node's values, each
\* once: after delete_value removed a name it is not listed, and every other
\* value is.
NamesListedInv ==
    (epc = "done" /\ ekind = "value_names" /\ Key_is_valid(ekey))
        => /\ eres.ok
           /\ eres.list = NamesOf(vals[NodeOf(m_hKey[ekey])])
           /\ (wrote.kind = "deleted" /\ wrote.node = NodeOf(m_hKey[ekey]))
                 => \A j \in 1..Len(eres.list) : eres.list[j] # wrote.name

\* C18: delete_value of a name that is not a value of the node fails with
\* NotFound and leaves the node's values unchanged; of a present name it
\* removes exactly that value, so a following enum_value_names no longer lists
\* it and lists every other value as before.
C18_DeleteValueExact == []NamesListedInv /\ [][DeleteValueStep]_vars

\* The value the node had from the start was deleted after another value had
\* been written, and enum_value_names has returned the other name only.
C18_Witness ==
    /\ epc = "done" /\ ekind = "value_names" /\ Key_is_valid(ekey)
    /\ wrote.kind = "deleted" /\ wrote.name = NameC
    /\ eres.ok /\ eres.list = <<NameA>>

\* This step is a call of a setter, an enumerator or a delete operation on a
\* Key that holds no handle.
InvalidKeyCall ==
    /\ last'.op \in SetterOps \cup DeleteOps \cup EnumKinds
    /\ last' # last \/ (epc = "idle" /\ epc' # "idle")
    /\ ~Key_is_valid(last'.key)

\* Such a call throws the store's invalid-handle status and changes neither
\* the store nor any Key; an enumerator returns the error and no collection.
InvalidKeyCallStep ==
    InvalidKeyCall
        => /\ last'.status = ERROR_INVALID_HANDLE
           /\ last'.thrown < 0 /\ HRESULT_CODE(last'.thrown) = ERROR_INVALID_HANDLE
           /\ nodes' = nodes /\ vals' = vals /\ hnode' = hnode
           /\ m_hKey' = m_hKey /\ closes' = closes /\ alive' = alive
           /\ ~WroteChanged
           /\ last'.op \in EnumKinds
                 => /\ epc' = "done" /\ ~eres'.ok
                    /\ eres'.status = ERROR_INVALID_HANDLE /\ eres'.list = <<>>

\* An enumerator that ran on a Key holding no handle has returned no
\* collection.
InvalidKeyEnumInv ==
    (epc = "done" /\ ~Key_is_valid(ekey))
        => (~eres.ok /\ eres.status = ERROR_INVALID_HANDLE /\ eres.list = <<>>)

\* C20: every setter, enumerator and delete operation called on an Invalid
\* Key (default-constructed or moved-from) fails with the invalid-handle error
\* and changes neither the store nor the Key, which stays Invalid; the
\* enumerators return no collection rather than an empty success.
C20_InvalidKeyFails == []InvalidKeyEnumInv /\ [][InvalidKeyCallStep]_vars

\* Key 1 was moved into Key 2, and enum_values on the moved-from Key 1 has
\* returned the invalid-handle error.
C20_Witness ==
    /\ epc = "done" /\ ekind = "values" /\ ekey = 1
    /\ last.op = "values" /\ last.key = 1
    /\ m_hKey[1] = NullH /\ m_hKey[2] = 1
    /\ ~eres.ok /\ eres.status = ERROR_INVALID_HANDLE

\* ------------------------------------------------------ the multi-text codec

\* Longest list and longest string passed to build_multistring.
MaxList == 3
MaxStr == 2

\* The characters of the strings (none is NUL).
Chars == {1, 2}

RECURSIVE StringsOfLen(_)
StringsOfLen(n) ==
    IF n = 0 THEN {<<>>}
    ELSE {Append(s, c) : s \in StringsOfLen(n - 1), c \in Chars}

StringsUpTo(len) == UNION {StringsOfLen(n) : n \in 0..len}

RECURSIVE ListsOfLen(_)
ListsOfLen(n) ==
    IF n = 0 THEN {<<>>}
    ELSE {Append(l, s) : l \in ListsOfLen(n - 1), s \in StringsUpTo(MaxStr)}

ListsUpTo(len) == UNION {ListsOfLen(n) : n \in 0..len}

\* The reader of the wire form: split on NUL, stop at the first segment of
\* length zero (or at the end of the buffer), which ends the list.
FirstNul(buf) ==
    IF \E j \in 1..Len(buf) : buf[j] = NUL
    THEN CHOOSE j \in 1..Len(buf) : buf[j] = NUL /\ \A i \in 1..(j - 1) : buf[i] # NUL
    ELSE Len(buf) + 1

RECURSIVE decode_multistring(_)
decode_multistring(buf) ==
    LET e == FirstNul(buf)
    IN IF e = 1 \/ buf = <<>> THEN <<>>
       ELSE <<SubSeq(buf, 1, e - 1)>> \o decode_multistring(SubSeq(buf, e + 1, Len(buf)))

\* A caller encodes a list.
Codec_encode ==
    /\ cpc = "start"
    /\ mret' = build_multistring(strings)
    /\ cpc' = "encoded"
    /\ UNCHANGED <<strings, decoded, wrote>>
    /\ UNCHANGED <<lifeVars, enumVars>>

\* A reader decodes what was encoded.
Codec_decode ==
    /\ cpc = "encoded"
    /\ decoded' = decode_multistring(mret)
    /\ cpc' = "decoded"
    /\ UNCHANGED <<strings, mret, wrote>>
    /\ UNCHANGED <<lifeVars, enumVars>>

InitCodec ==
    /\ InitLife /\ EnumIdle
    /\ wrote = NothingWritten
    /\ strings \in ListsUpTo(MaxList)
    /\ mret = <<>> /\ decoded = <<>> /\ cpc = "start"

NextCodec == Codec_encode \/ Codec_decode

SpecCodec == InitCodec /\ [][NextCodec]_vars

\* ------------------------------------------------------ the codec: claims

\* C13: encoding the empty list yields exactly two NUL characters and no
\* string content.
C13_EmptyListTwoNuls ==
    (cpc # "start" /\ strings = <<>>) => mret = <<NUL, NUL>>

\* The strings of a list before its first empty string.
RECURSIVE UpToFirstEmpty(_)
UpToFirstEmpty(list) ==
    IF list = <<>> \/ Head(list) = <<>> THEN <<>>
    ELSE <<Head(list)>> \o UpToFirstEmpty(Tail(list))

\* C14 as stated: decoding the encoding of any list of strings without NUL,
\* the empty list and lists with empty strings included, gives back the list.
C14_Original == cpc = "decoded" => decoded = strings

\* C14 amended: decoding the encoding of a list of non-empty strings without
\* NUL, the empty list included, gives back the list; a list that contains an
\* empty string comes back cut at its first empty string.
C14_RoundTripNonEmptyStrings ==
    cpc = "decoded"
        => /\ decoded = UpToFirstEmpty(strings)
           /\ (\A j \in 1..Len(strings) : strings[j] # <<>>) => decoded = strings

\* ["a", "bb"] has been encoded and decoded back.
C14_Witness ==
    /\ cpc = "decoded" /\ strings = <<NameA, NameB>>
    /\ mret = <<1, NUL, 2, 2, NUL, NUL>> /\ decoded = <<NameA, NameB>>

\* Where string i starts in the encoding: after the strings before it and
\* their NULs.
RECURSIVE OffsetOf(_, _)
OffsetOf(list, i) ==
    IF i = 1 THEN 0 ELSE OffsetOf(list, i - 1) + Len(list[i - 1]) + 1

\* C15: for a non-empty list, build_multistring gives each string's characters
\* followed by one NUL, in list order, then one final NUL: the length is the
\* sum of (length + 1) over the strings plus 1, and the last two characters
\* are NUL.
C15_NonEmptyEncoding ==
    (cpc # "start" /\ strings # <<>>)
        => LET n == Len(strings)
               total == OffsetOf(strings, n) + Len(strings[n]) + 1 + 1
           IN /\ Len(mret) = total
              /\ \A i \in 1..n :
                    /\ \A j \in 1..Len(strings[i]) :
                          mret[OffsetOf(strings, i) + j] = strings[i][j]
                    /\ mret[OffsetOf(strings, i) + Len(strings[i]) + 1] = NUL
              /\ mret[total] = NUL /\ mret[total - 1] = NUL

\* ["a", "bb", ""] has been encoded: a NUL after each string and a final one.
C15_Witness ==
    /\ cpc = "encoded" /\ strings = <<NameA, NameB, <<>>>>
    /\ mret = <<1, NUL, 2, 2, NUL, NUL, NUL>>

====
